---- MODULE Spec2Model ----
(***************************************************************************)
(* State-machine model of the VoidWriter single page application           *)
(* (src/src/App.tsx): the App component's React state, the per-letter      *)
(* FadingLetter state, the 200 ms word-finalisation timers started by      *)
(* punctuation keys and the clipboard writes in flight.                    *)
(*                                                                         *)
(* Strings are sequences of one-character strings, so that slicing,        *)
(* joining and trimming are computed and not assumed.                      *)
(*                                                                         *)
(* Every event handler runs against the closure of the latest render:      *)
(* keydown and click are discrete events, React commits their updates      *)
(* before the next event is delivered, and the keydown listener is         *)
(* re-registered by the effect at lines 418-426.  The one closure that     *)
(* outlives its render is the setTimeout callback of lines 300-302; the    *)
(* model keeps the currentWord it closed over in wordTimers.               *)
(*                                                                         *)
(* Opacities are integers in units of 1/1000; position and fontSize of a   *)
(* letter are random presentation values and are left out.                 *)
(***************************************************************************)
EXTENDS Integers, Sequences, FiniteSets, TLC

(***************************************************************************)
(* Bounds of the model.                                                    *)
(***************************************************************************)
\* ids the model hands out: a key is taken only while the word it extends or
\* shows can still be given ids up to MaxId
MaxId == 2
MaxPendingCopies == 1
\* consecutive interval callbacks of one letter taken as one step
TickBurst == 100

(***************************************************************************)
(* Program constants.                                                      *)
(***************************************************************************)
FullOpacity == 1000
FadingOutRate == 5
ActiveRate == 1
DefaultFadeSpeedFactor == 10

LowerCase ==
  {"a","b","c","d","e","f","g","h","i","j","k","l","m",
   "n","o","p","q","r","s","t","u","v","w","x","y","z"}

UpperCase ==
  {"A","B","C","D","E","F","G","H","I","J","K","L","M",
   "N","O","P","Q","R","S","T","U","V","W","X","Y","Z"}

PunctuationChars == {".", ",", "!", "?", ";", ":"}

WhiteSpace == {" ", "\t", "\n"}

LetterChars == LowerCase \cup UpperCase

\* mutant of IsLetterKey: without the anchors the test also matches the named
\* keys, which are spelt with letters
IsLetterKeyUnanchored(key) == key \in LetterChars \cup {"Backspace", "Enter"}

\* /^[a-zA-Z]$/.test(event.key)
IsLetterKey(key) == key \in LetterChars

\* /[.,!?;:]/.test(event.key), for the one-character keys and the named
\* keys of KeyInputs (no named key contains a punctuation mark)
IsPunctuationKey(key) == key \in PunctuationChars

(***************************************************************************)
(* Inputs the model enumerates.                                            *)
(***************************************************************************)
KeyInputs == {"h", "i", "Backspace", " ", "Enter", ".", "1"}
SliderInputs == {10, 30}

\* what a handler that writes no text hands to the outside
NoText == <<"none">>

(***************************************************************************)
(* String functions.                                                       *)
(***************************************************************************)
\* mutant of SliceDropLast: slice(1) drops the first character
SliceDropFirst(word) == SubSeq(word, 2, Len(word))

\* currentWord.slice(0, -1)
SliceDropLast(word) == SubSeq(word, 1, Len(word) - 1)

RECURSIVE TrimStart(_)
TrimStart(s) ==
  IF s # <<>> /\ Head(s) \in WhiteSpace THEN TrimStart(Tail(s)) ELSE s

RECURSIVE TrimEnd(_)
TrimEnd(s) ==
  IF s # <<>> /\ s[Len(s)] \in WhiteSpace THEN TrimEnd(SliceDropLast(s)) ELSE s

\* String.prototype.trim
Trim(s) == TrimEnd(TrimStart(s))

RECURSIVE JoinWords(_, _)
JoinWords(words, sep) ==
  IF words = <<>> THEN <<>>
  ELSE IF Len(words) = 1 THEN words[1]
  ELSE words[1] \o sep \o JoinWords(Tail(words), sep)

\* mutant of GetTextContent: join('') puts nothing between the words
GetTextContentNoSeparator(buffer) == JoinWords(buffer, <<>>)

\* textBuffer.join(' ')
GetTextContent(buffer) == JoinWords(buffer, <<" ">>)

\* mutant of RemovePunctuation: without the g flag only the first mark goes
RECURSIVE RemoveFirstPunctuation(_)
RemoveFirstPunctuation(word) ==
  IF word = <<>> THEN <<>>
  ELSE IF Head(word) \in PunctuationChars THEN Tail(word)
  ELSE <<Head(word)>> \o RemoveFirstPunctuation(Tail(word))

\* word.replace(/[.,!?;:]/g, '')
RECURSIVE RemovePunctuation(_)
RemovePunctuation(word) ==
  IF word = <<>> THEN <<>>
  ELSE IF Head(word) \in PunctuationChars THEN RemovePunctuation(Tail(word))
  ELSE <<Head(word)>> \o RemovePunctuation(Tail(word))

\* textBuffer.reduce((count, word) => cleanWord ? count + 1 : count, 0)
RECURSIVE BufferWordCount(_)
BufferWordCount(buffer) ==
  IF buffer = <<>> THEN 0
  ELSE LET rest == BufferWordCount(SliceDropLast(buffer))
           cleanWord == Trim(RemovePunctuation(buffer[Len(buffer)]))
       IN IF cleanWord # <<>> THEN rest + 1 ELSE rest

\* getWordCount()
GetWordCount(buffer, word) ==
  LET currentWordCount == IF Trim(word) # <<>> THEN 1 ELSE 0
  IN BufferWordCount(buffer) + currentWordCount

(***************************************************************************)
(* State.                                                                  *)
(***************************************************************************)
VARIABLES
  currentWord,       \* useState('')            word being typed
  displayedLetters,  \* useState([])            letters in the scene
  nextId,            \* useState(1)             id counter
  textBuffer,        \* useState([])            completed words
  hasText,           \* useState(false)
  isPanelVisible,    \* useState(true)
  fadeSpeedFactor,   \* useState(1), in tenths
  opacity,           \* FadingLetter useState(1), per mounted letter id
  fadeTimers,        \* ids of the letters whose setInterval is live
  wordTimers,        \* pending setTimeout callbacks: the currentWord each closed over
  pendingCopies,     \* number of clipboard.writeText promises not yet settled
  lastEvent          \* observation: the handler that ran last, with its input
                     \* (the key) or what it handed to the outside (the text of
                     \* the file, the text for the clipboard, the console line,
                     \* the word count rendered) or, for an interval callback,
                     \* the letter's id and the opacity its updater returned

appVars ==
  <<currentWord, displayedLetters, nextId, textBuffer, hasText,
    isPanelVisible, fadeSpeedFactor>>

letterVars == <<opacity, fadeTimers>>

envVars == <<wordTimers, pendingCopies>>

vars == <<appVars, letterVars, envVars, lastEvent>>

Init ==
  /\ currentWord = <<>>
  /\ displayedLetters = <<>>
  /\ nextId = 1
  /\ textBuffer = <<>>
  /\ hasText = FALSE
  /\ isPanelVisible = TRUE
  /\ fadeSpeedFactor = DefaultFadeSpeedFactor
  /\ opacity = <<>>
  /\ fadeTimers = {}
  /\ wordTimers = <<>>
  /\ pendingCopies = 0
  /\ lastEvent = <<"init", "">>

(***************************************************************************)
(* Helpers over the letter list.                                           *)
(***************************************************************************)
LetterIds(letters) == {letters[i].id : i \in 1..Len(letters)}

\* mutant of MarkFadingOut: the letters are left as they are
MarkFadingOutNone(prev) == prev

\* prev.map(letter => letter.isFadingOut ? letter : {...letter, isFadingOut: true})
MarkFadingOut(prev) ==
  [i \in 1..Len(prev) |->
     IF prev[i].isFadingOut THEN prev[i] ELSE [prev[i] EXCEPT !.isFadingOut = TRUE]]

\* mutant of NewLetters: id: nextId, without the index
NewLettersSameId(word, firstId) ==
  [index \in 1..Len(word) |->
     [id |-> firstId, text |-> word[index], isFadingOut |-> FALSE]]

\* updateLetterPositions(word).map((letterInfo, index) => ({id: nextId + index, ...}))
NewLetters(word, firstId) ==
  [index \in 1..Len(word) |->
     [id |-> firstId + (index - 1), text |-> word[index], isFadingOut |-> FALSE]]

\* mutant of ShowWord: the new letters are put in front of the list
ShowWordInFront(prev, word, firstId) ==
  NewLetters(word, firstId) \o MarkFadingOut(prev)

\* the updater passed to setDisplayedLetters by the Space/Enter and punctuation branches
ShowWord(prev, word, firstId) == MarkFadingOut(prev) \o NewLetters(word, firstId)

\* prev.filter(letter => letter.id !== id)
RemoveLetter(prev, id) == SelectSeq(prev, LAMBDA letter : letter.id # id)

\* mutant of Reconcile: unmounting leaves the interval running
ReconcileKeepsTimers(letters) ==
  /\ opacity' = [id \in LetterIds(letters) |->
                   IF id \in DOMAIN opacity THEN opacity[id] ELSE FullOpacity]
  /\ fadeTimers' = fadeTimers \cup (LetterIds(letters) \ DOMAIN opacity)

\* React mounts a FadingLetter (opacity 1, interval started) for every new key
\* of the list and unmounts (interval cleared) those whose key is gone.
Reconcile(letters) ==
  /\ opacity' = [id \in LetterIds(letters) |->
                   IF id \in DOMAIN opacity THEN opacity[id] ELSE FullOpacity]
  /\ fadeTimers' = (fadeTimers \cap LetterIds(letters))
                     \cup (LetterIds(letters) \ DOMAIN opacity)

\* mutant of StartNewWord: the word is put in front of the buffer
StartNewWordInFront(word) ==
  IF Trim(word) # <<>>
  THEN /\ textBuffer' = <<word>> \o textBuffer
       /\ hasText' = TRUE
       /\ currentWord' = <<>>
  ELSE UNCHANGED <<textBuffer, hasText, currentWord>>

(***************************************************************************)
(* startNewWord, run from a closure whose currentWord is `word`.           *)
(***************************************************************************)
StartNewWord(word) ==
  IF Trim(word) # <<>>
  THEN /\ textBuffer' = Append(textBuffer, word)
       /\ hasText' = TRUE
       /\ currentWord' = <<>>
  ELSE UNCHANGED <<textBuffer, hasText, currentWord>>

(***************************************************************************)
(* handleKeyDown.                                                          *)
(***************************************************************************)
HandleKeyDown(key) ==
  /\ lastEvent' = <<"keydown", key>>
  /\ IF IsLetterKey(key)
     THEN /\ currentWord' = Append(currentWord, key)
          /\ UNCHANGED <<displayedLetters, nextId, textBuffer, hasText,
                         letterVars, wordTimers>>
     ELSE IF key = "Backspace"
     THEN /\ IF Len(currentWord) > 0
             THEN currentWord' = SliceDropLast(currentWord)
             ELSE UNCHANGED currentWord
          /\ UNCHANGED <<displayedLetters, nextId, textBuffer, hasText,
                         letterVars, wordTimers>>
     ELSE IF key = " " \/ key = "Enter"
     THEN IF Trim(currentWord) # <<>>
          THEN /\ displayedLetters' = ShowWord(displayedLetters, currentWord, nextId)
               /\ Reconcile(displayedLetters')
               /\ nextId' = nextId + Len(currentWord)
               /\ StartNewWord(currentWord)
               /\ UNCHANGED wordTimers
          ELSE UNCHANGED <<currentWord, displayedLetters, nextId, textBuffer,
                           hasText, letterVars, wordTimers>>
     ELSE IF IsPunctuationKey(key)
     THEN IF currentWord # <<>>
          THEN LET newWord == Append(currentWord, key) IN
               /\ currentWord' = newWord
               /\ displayedLetters' = ShowWord(displayedLetters, newWord, nextId)
               /\ Reconcile(displayedLetters')
               /\ nextId' = nextId + Len(newWord)
               /\ wordTimers' = Append(wordTimers, currentWord)
               /\ UNCHANGED <<textBuffer, hasText>>
          ELSE UNCHANGED <<currentWord, displayedLetters, nextId, textBuffer,
                           hasText, letterVars, wordTimers>>
     ELSE UNCHANGED <<currentWord, displayedLetters, nextId, textBuffer,
                      hasText, letterVars, wordTimers>>
  /\ UNCHANGED <<isPanelVisible, fadeSpeedFactor, pendingCopies>>

\* the callback of setTimeout(() => { startNewWord(); }, 200): timers of equal
\* delay fire in the order they were set
WordTimerFires ==
  /\ wordTimers # <<>>
  /\ lastEvent' = <<"timeout", "">>
  /\ StartNewWord(Head(wordTimers))
  /\ wordTimers' = Tail(wordTimers)
  /\ UNCHANGED <<displayedLetters, nextId, isPanelVisible, fadeSpeedFactor,
                 letterVars, pendingCopies>>

(***************************************************************************)
(* FadingLetter: the setInterval callback (every 20 ms).                   *)
(***************************************************************************)
\* mutant of FadeSpeed: only letters marked fading out lose opacity
FadeSpeedOnlyFadingOut(isFadingOut, factor) ==
  IF isFadingOut THEN FadingOutRate * factor ELSE 0

\* const fadeSpeed = isFadingOut ? 0.05 * fadeSpeedFactor : 0.01 * fadeSpeedFactor
FadeSpeed(isFadingOut, factor) ==
  IF isFadingOut THEN FadingOutRate * factor ELSE ActiveRate * factor

\* mutant of NextOpacity: the difference is returned as it is
NextOpacityUnclamped(prev, fadeSpeed) == prev - fadeSpeed

\* the updater passed to setOpacity: the value it returns
NextOpacity(prev, fadeSpeed) ==
  LET newOpacity == prev - fadeSpeed IN
  IF newOpacity <= 0 THEN 0 ELSE newOpacity

\* the updater passed to setOpacity: whether it clears the interval and calls
\* onFadeComplete
FadeCompletes(prev, fadeSpeed) == prev - fadeSpeed <= 0

\* n consecutive callbacks of one letter's interval; the interval is cleared by
\* the first callback that completes the fade
RECURSIVE AfterTicks(_, _, _)
AfterTicks(prev, fadeSpeed, n) ==
  IF n = 0 THEN [value |-> prev, done |-> FALSE]
  ELSE IF FadeCompletes(prev, fadeSpeed)
       THEN [value |-> NextOpacity(prev, fadeSpeed), done |-> TRUE]
       ELSE AfterTicks(NextOpacity(prev, fadeSpeed), fadeSpeed, n - 1)

LetterById(id) ==
  CHOOSE letter \in {displayedLetters[i] : i \in 1..Len(displayedLetters)} :
    letter.id = id

\* handleFadeComplete(id)
HandleFadeComplete(id) ==
  /\ displayedLetters' = RemoveLetter(displayedLetters, id)
  /\ Reconcile(displayedLetters')

FadeTick(id, n) ==
  /\ id \in fadeTimers
  /\ id \in LetterIds(displayedLetters)
  /\ \E after \in {AfterTicks(opacity[id],
                             FadeSpeed(LetterById(id).isFadingOut, fadeSpeedFactor), n)} :
        /\ lastEvent' = <<"tick", <<id, after.value>> >>
        /\ IF after.done
           THEN HandleFadeComplete(id)
           ELSE /\ opacity' = [opacity EXCEPT ![id] = after.value]
                /\ UNCHANGED <<displayedLetters, fadeTimers>>
  /\ UNCHANGED <<currentWord, nextId, textBuffer, hasText, isPanelVisible,
                 fadeSpeedFactor, envVars>>

(***************************************************************************)
(* Panel controls.                                                         *)
(***************************************************************************)
\* onChange={(e) => setFadeSpeedFactor(parseFloat(e.target.value))}
SetFadeSpeedFactor(value) ==
  /\ fadeSpeedFactor' = value
  /\ lastEvent' = <<"slider", "">>
  /\ UNCHANGED <<currentWord, displayedLetters, nextId, textBuffer, hasText,
                 isPanelVisible, letterVars, envVars>>

TogglePanel ==
  /\ isPanelVisible' = ~isPanelVisible
  /\ lastEvent' = <<"togglePanel", "">>
  /\ UNCHANGED <<currentWord, displayedLetters, nextId, textBuffer, hasText,
                 fadeSpeedFactor, letterVars, envVars>>

(***************************************************************************)
(* Text management.                                                        *)
(***************************************************************************)
\* mutant of ClearTextBuffer: hasText is left as it is
ClearTextBufferKeepsHasText ==
  /\ textBuffer' = <<>>
  /\ hasText' = hasText

ClearTextBuffer ==
  /\ textBuffer' = <<>>
  /\ hasText' = FALSE

\* mutant of ClearAllText: the word being typed is kept
ClearAllTextKeepsWord ==
  /\ textBuffer' = <<>>
  /\ hasText' = FALSE
  /\ displayedLetters' = <<>>
  /\ Reconcile(displayedLetters')
  /\ lastEvent' = <<"clearAllText", "">>
  /\ UNCHANGED <<currentWord, nextId, isPanelVisible, fadeSpeedFactor, envVars>>

ClearAllText ==
  /\ textBuffer' = <<>>
  /\ hasText' = FALSE
  /\ currentWord' = <<>>
  /\ displayedLetters' = <<>>
  /\ Reconcile(displayedLetters')
  /\ lastEvent' = <<"clearAllText", "">>
  /\ UNCHANGED <<nextId, isPanelVisible, fadeSpeedFactor, envVars>>

\* The handlers are invoked whether or not the sidebar currently renders their
\* button (lines 472-488): the guards below are the handlers' own.
\* mutant of HandleDownload: the early return on an empty buffer is missing
HandleDownloadUnguarded ==
  /\ lastEvent' = <<"download", GetTextContent(textBuffer)>>
  /\ ClearTextBuffer
  /\ UNCHANGED <<currentWord, displayedLetters, nextId, isPanelVisible,
                 fadeSpeedFactor, letterVars, envVars>>

HandleDownload ==
  /\ IF Len(textBuffer) = 0
     THEN /\ lastEvent' = <<"download", NoText>>
          /\ UNCHANGED <<textBuffer, hasText>>
     ELSE /\ lastEvent' = <<"download", GetTextContent(textBuffer)>>
          /\ ClearTextBuffer
  /\ UNCHANGED <<currentWord, displayedLetters, nextId, isPanelVisible,
                 fadeSpeedFactor, letterVars, envVars>>

HandleCopy ==
  /\ IF Len(textBuffer) = 0
     THEN /\ lastEvent' = <<"copy", NoText>>
          /\ UNCHANGED pendingCopies
     ELSE /\ lastEvent' = <<"copy", GetTextContent(textBuffer)>>
          /\ pendingCopies' = pendingCopies + 1
  /\ UNCHANGED <<appVars, letterVars, wordTimers>>

\* mutant of CopyFulfilled: the buffer is not reset after the copy
CopyFulfilledKeepsBuffer ==
  /\ pendingCopies > 0
  /\ lastEvent' = <<"copyFulfilled", NoText>>
  /\ pendingCopies' = pendingCopies - 1
  /\ UNCHANGED <<appVars, letterVars, wordTimers>>

\* .then(() => { clearTextBuffer(); })
CopyFulfilled ==
  /\ pendingCopies > 0
  /\ lastEvent' = <<"copyFulfilled", NoText>>
  /\ pendingCopies' = pendingCopies - 1
  /\ ClearTextBuffer
  /\ UNCHANGED <<currentWord, displayedLetters, nextId, isPanelVisible,
                 fadeSpeedFactor, letterVars, wordTimers>>

\* mutant of CopyRejected: the buffer is reset whether or not the copy succeeded
CopyRejectedClearsBuffer ==
  /\ pendingCopies > 0
  /\ lastEvent' = <<"copyRejected", "console.error">>
  /\ pendingCopies' = pendingCopies - 1
  /\ ClearTextBuffer
  /\ UNCHANGED <<currentWord, displayedLetters, nextId, isPanelVisible,
                 fadeSpeedFactor, letterVars, wordTimers>>

\* .catch(err => { console.error('Could not copy text: ', err); })
CopyRejected ==
  /\ pendingCopies > 0
  /\ lastEvent' = <<"copyRejected", "console.error">>
  /\ pendingCopies' = pendingCopies - 1
  /\ UNCHANGED <<appVars, letterVars, wordTimers>>

(***************************************************************************)
(* The bounded system.                                                     *)
(***************************************************************************)
KeyWithinBounds(key) ==
  IF IsLetterKey(key) THEN nextId + Len(currentWord) <= MaxId
  ELSE IF key = " " \/ key = "Enter"
  THEN currentWord = <<>> \/ nextId + Len(currentWord) - 1 <= MaxId
  ELSE IF IsPunctuationKey(key)
  THEN currentWord = <<>> \/ nextId + Len(currentWord) <= MaxId
  ELSE TRUE

KeyDown == \E key \in KeyInputs : KeyWithinBounds(key) /\ HandleKeyDown(key)

Timeout == WordTimerFires

Tick == \E id \in fadeTimers : FadeTick(id, TickBurst)

Slider == \E value \in SliderInputs : SetFadeSpeedFactor(value)

Copy == pendingCopies < MaxPendingCopies /\ HandleCopy

Next ==
  \/ KeyDown
  \/ Timeout
  \/ Tick
  \/ Slider
  \/ TogglePanel
  \/ ClearAllText
  \/ HandleDownload
  \/ Copy
  \/ CopyFulfilled
  \/ CopyRejected

Spec == Init /\ [][Next]_vars

(***************************************************************************)
(* The fade in single 20 ms callbacks.  One letter's interval is followed  *)
(* at a time: a callback is taken for a letter only while every other      *)
(* letter on display is still at full opacity, so that the opacities       *)
(* reached stay few; which letter fades next is free.                      *)
(***************************************************************************)
MaxFadeId == 2

\* <input type="range" min="0.1" max="3" step="0.1">, in tenths
MinFadeSpeedFactor == 1
MaxFadeSpeedFactor == 30

FadeKeyInputs == {"h", " "}
FadeSliderInputs == {MinFadeSpeedFactor, MaxFadeSpeedFactor}

FadeKeyDown ==
  \E key \in FadeKeyInputs :
    /\ IF IsLetterKey(key) THEN nextId + Len(currentWord) <= MaxFadeId
       ELSE currentWord = <<>> \/ nextId + Len(currentWord) - 1 <= MaxFadeId
    /\ HandleKeyDown(key)

FadeTickOne ==
  \E id \in fadeTimers :
    /\ \A other \in DOMAIN opacity : other # id => opacity[other] = FullOpacity
    /\ FadeTick(id, 1)

FadeSlider == \E value \in FadeSliderInputs : SetFadeSpeedFactor(value)

NextFade ==
  \/ FadeKeyDown
  \/ FadeTickOne
  \/ FadeSlider

SpecFade == Init /\ [][NextFade]_vars

(***************************************************************************)
(* The fade at the slowest, the default and the fastest setting of the     *)
(* slider: the slider is set before the first key and then left alone.     *)
(* setInterval keeps calling back every 20 ms for as long as a letter is   *)
(* mounted: the callbacks are taken again and again.                       *)
(***************************************************************************)
FadeLiveFactors == {MinFadeSpeedFactor, DefaultFadeSpeedFactor, MaxFadeSpeedFactor}

InitFadeLive ==
  /\ currentWord = <<>>
  /\ displayedLetters = <<>>
  /\ nextId = 1
  /\ textBuffer = <<>>
  /\ hasText = FALSE
  /\ isPanelVisible = TRUE
  /\ fadeSpeedFactor \in FadeLiveFactors
  /\ opacity = <<>>
  /\ fadeTimers = {}
  /\ wordTimers = <<>>
  /\ pendingCopies = 0
  /\ lastEvent = <<"slider", "">>

NextFadeLive ==
  \/ FadeKeyDown
  \/ FadeTickOne

FairFade == WF_vars(FadeTickOne)

SpecFadeLive == InitFadeLive /\ [][NextFadeLive]_vars /\ FairFade

(***************************************************************************)
(* Typing against the 200 ms timer of the punctuation keys: keys and the   *)
(* timers' callbacks in every order, with ids enough for a punctuated word *)
(* to be displayed twice.  The letters stay mounted: no interval callback  *)
(* is taken.                                                               *)
(***************************************************************************)
MaxOnceId == 4

OnceKeyInputs == {"h", ".", " ", "Enter"}

OnceKeyWithinBounds(key) ==
  IF IsLetterKey(key) THEN nextId + Len(currentWord) <= MaxOnceId
  ELSE IF key = " " \/ key = "Enter"
  THEN currentWord = <<>> \/ nextId + Len(currentWord) - 1 <= MaxOnceId
  ELSE currentWord = <<>> \/ nextId + Len(currentWord) <= MaxOnceId

OnceKeyDown ==
  \E key \in OnceKeyInputs : OnceKeyWithinBounds(key) /\ HandleKeyDown(key)

NextOnce ==
  \/ OnceKeyDown
  \/ WordTimerFires

SpecOnce == Init /\ [][NextOnce]_vars

(***************************************************************************)
(* getWordCount as a function of its inputs: the panel renders its value   *)
(* for whatever textBuffer and currentWord hold.                           *)
(***************************************************************************)
MaxCountWords == 2
MaxCountWordLen == 2

CountChars == {"h", ".", " "}

CountWords == UNION {[1..n -> CountChars] : n \in 0..MaxCountWordLen}

CountBuffers == UNION {[1..n -> CountWords] : n \in 0..MaxCountWords}

CountCurrentWords == {<<>>, <<"h">>, <<" ">>, <<"h", ".">>}

InitWordCount ==
  /\ textBuffer \in CountBuffers
  /\ currentWord \in CountCurrentWords
  /\ hasText = (textBuffer # <<>>)
  /\ displayedLetters = <<>>
  /\ nextId = 1
  /\ isPanelVisible = TRUE
  /\ fadeSpeedFactor = DefaultFadeSpeedFactor
  /\ opacity = <<>>
  /\ fadeTimers = {}
  /\ wordTimers = <<>>
  /\ pendingCopies = 0
  /\ lastEvent = <<"init", "">>

\* <span>{getWordCount()}</span>
RenderWordCount ==
  /\ lastEvent' = <<"wordCount", GetWordCount(textBuffer, currentWord)>>
  /\ UNCHANGED <<appVars, letterVars, envVars>>

SpecWordCount == InitWordCount /\ [][RenderWordCount]_vars

(***************************************************************************)
(* Vocabulary of the properties.                                           *)
(***************************************************************************)
EventName == lastEvent[1]
EventArg == lastEvent[2]

WordKeys == {" ", "Enter"}

NonFadingIndexes ==
  {i \in 1..Len(displayedLetters) : ~displayedLetters[i].isFadingOut}

\* the words of a text that separates them by single spaces
RECURSIVE WordsOf(_, _)
WordsOf(text, word) ==
  IF text = <<>> THEN <<word>>
  ELSE IF Head(text) = " " THEN <<word>> \o WordsOf(Tail(text), <<>>)
  ELSE WordsOf(Tail(text), Append(word, Head(text)))

\* `text` is exactly the words of `buffer`, in order, with one space between
\* neighbours
IsWordsJoinedBySpaces(text, buffer) ==
  /\ text # NoText
  /\ WordsOf(text, <<>>) = buffer

(***************************************************************************)
(* C1: in every reachable state the letters of displayedLetters have       *)
(* pairwise distinct ids.                                                  *)
(***************************************************************************)
C1_DistinctIds ==
  \A i, j \in 1..Len(displayedLetters) :
    i # j => displayedLetters[i].id # displayedLetters[j].id

\* two words on display at once: a fading one and a fresh one
C1_Witness ==
  /\ Len(displayedLetters) >= 2
  /\ \E i, j \in 1..Len(displayedLetters) :
       displayedLetters[i].isFadingOut /\ ~displayedLetters[j].isFadingOut

(***************************************************************************)
(* C2: Space or Enter on a non-blank current word appends to               *)
(* displayedLetters exactly one record per character of the word, in       *)
(* character order, each with that character as text and isFadingOut       *)
(* false.                                                                  *)
(***************************************************************************)
C2_WordDisplayed ==
  [][(EventName' = "keydown" /\ EventArg' \in WordKeys /\ Trim(currentWord) # <<>>)
       => /\ Len(displayedLetters') = Len(displayedLetters) + Len(currentWord)
          /\ \A i \in 1..Len(displayedLetters) :
               displayedLetters'[i].id = displayedLetters[i].id
          /\ \A c \in 1..Len(currentWord) :
               /\ displayedLetters'[Len(displayedLetters) + c].text = currentWord[c]
               /\ displayedLetters'[Len(displayedLetters) + c].isFadingOut = FALSE]_vars

\* 'h', 'i', Space: the visible group is exactly the two letters 'h', 'i'
C2_Witness ==
  /\ EventName = "keydown" /\ EventArg = " "
  /\ Len(displayedLetters) = 2
  /\ NonFadingIndexes = {1, 2}
  /\ displayedLetters[1].text = "h"
  /\ displayedLetters[2].text = "i"

(***************************************************************************)
(* C3: Space or Enter on a non-blank current word appends the word as the  *)
(* last entry of textBuffer, sets hasText and empties currentWord.         *)
(***************************************************************************)
C3_WordBuffered ==
  [][(EventName' = "keydown" /\ EventArg' \in WordKeys /\ Trim(currentWord) # <<>>)
       => /\ Len(textBuffer') = Len(textBuffer) + 1
          /\ textBuffer'[Len(textBuffer')] = currentWord
          /\ \A i \in 1..Len(textBuffer) : textBuffer'[i] = textBuffer[i]
          /\ hasText' = TRUE
          /\ currentWord' = <<>>]_vars

\* Enter has put "i" behind an earlier "h"
C3_Witness ==
  /\ EventName = "keydown" /\ EventArg = "Enter"
  /\ textBuffer = << <<"h">>, <<"i">> >>
  /\ hasText
  /\ currentWord = <<>>

(***************************************************************************)
(* C4: a punctuation key on a non-empty current word displays the word     *)
(* with the mark appended (one non-fading letter per character, the mark   *)
(* last), and when the 200 ms timer then fires with no other input in      *)
(* between, the word including the mark is appended to textBuffer and      *)
(* currentWord becomes empty.                                              *)
(***************************************************************************)
C4_PunctuatedWordCompleted ==
  [][/\ (EventName' = "keydown" /\ EventArg' \in PunctuationChars /\ currentWord # <<>>)
          => /\ Len(displayedLetters')
                  = Len(displayedLetters) + Len(currentWord) + 1
             /\ \A c \in 1..Len(currentWord) :
                  /\ displayedLetters'[Len(displayedLetters) + c].text = currentWord[c]
                  /\ ~displayedLetters'[Len(displayedLetters) + c].isFadingOut
             /\ displayedLetters'[Len(displayedLetters')].text = EventArg'
             /\ ~displayedLetters'[Len(displayedLetters')].isFadingOut
     /\ (/\ EventName = "keydown" /\ EventArg \in PunctuationChars
         /\ currentWord # <<>> /\ Len(wordTimers) = 1
         /\ EventName' = "timeout")
          => /\ textBuffer' = Append(textBuffer, currentWord)
             /\ currentWord' = <<>>]_vars

(***************************************************************************)
(* C5: a letter key appends exactly that character to the end of           *)
(* currentWord; Backspace removes exactly the last character, and leaves   *)
(* an empty currentWord empty.                                             *)
(***************************************************************************)
C5_LetterAndBackspace ==
  [][/\ (EventName' = "keydown" /\ EventArg' \in LetterChars)
          => /\ Len(currentWord') = Len(currentWord) + 1
             /\ currentWord'[Len(currentWord')] = EventArg'
             /\ \A i \in 1..Len(currentWord) : currentWord'[i] = currentWord[i]
     /\ (EventName' = "keydown" /\ EventArg' = "Backspace")
          => IF currentWord = <<>>
             THEN currentWord' = <<>>
             ELSE /\ Len(currentWord') = Len(currentWord) - 1
                  /\ \A i \in 1..Len(currentWord') :
                       currentWord'[i] = currentWord[i]]_vars

\* Backspace has taken the second character off a two-character word
C5_Witness ==
  /\ EventName = "keydown" /\ EventArg = "Backspace"
  /\ currentWord = <<"h">>

(***************************************************************************)
(* C6: handleDownload with an empty textBuffer is a no-op: no file is      *)
(* produced and textBuffer, hasText, currentWord, displayedLetters and     *)
(* nextId are unchanged.                                                   *)
(***************************************************************************)
C6_EmptyDownloadNoOp ==
  [][(EventName' = "download" /\ textBuffer = <<>>)
       => /\ EventArg' = NoText
          /\ UNCHANGED <<textBuffer, hasText, currentWord, displayedLetters,
                         nextId>>]_vars

\* a download asked for while a word is being typed and letters are on display,
\* with nothing buffered
C6_Witness ==
  /\ EventName = "download" /\ EventArg = NoText
  /\ textBuffer = <<>>
  /\ currentWord # <<>>
  /\ displayedLetters # <<>>

(***************************************************************************)
(* C7: handleDownload with a non-empty textBuffer exports exactly the      *)
(* buffer's words joined by single spaces, in buffer order; afterwards     *)
(* textBuffer is empty and hasText false, and currentWord,                 *)
(* displayedLetters and nextId are unchanged.                              *)
(***************************************************************************)
C7_DownloadExportsBuffer ==
  [][(EventName' = "download" /\ textBuffer # <<>>)
       => /\ IsWordsJoinedBySpaces(EventArg', textBuffer)
          /\ textBuffer' = <<>>
          /\ hasText' = FALSE
          /\ UNCHANGED <<currentWord, displayedLetters, nextId>>]_vars

\* the file "h i" has been produced from the buffer <<"h", "i">>
C7_Witness ==
  /\ EventName = "download" /\ EventArg = <<"h", " ", "i">>
  /\ textBuffer = <<>>
  /\ ~hasText

(***************************************************************************)
(* C8: handleCopy with a non-empty textBuffer writes the buffer's words    *)
(* joined by single spaces to the clipboard, and once the write succeeds   *)
(* textBuffer is empty and hasText false; with an empty textBuffer it      *)
(* writes nothing and changes no state.                                    *)
(***************************************************************************)
C8_CopyWritesBuffer ==
  [][/\ (EventName' = "copy" /\ textBuffer # <<>>)
          => /\ IsWordsJoinedBySpaces(EventArg', textBuffer)
             /\ pendingCopies' = pendingCopies + 1
     /\ (EventName' = "copyFulfilled")
          => /\ textBuffer' = <<>>
             /\ hasText' = FALSE
     /\ (EventName' = "copy" /\ textBuffer = <<>>)
          => /\ EventArg' = NoText
             /\ UNCHANGED <<appVars, letterVars, envVars>>]_vars

\* the write of a buffered word is in flight
C8_Witness ==
  /\ EventName = "copy"
  /\ EventArg # NoText
  /\ IsWordsJoinedBySpaces(EventArg, textBuffer)
  /\ Len(textBuffer) = 2
  /\ pendingCopies = 1

(***************************************************************************)
(* C9: when the clipboard write is rejected the only effect is a logged    *)
(* error: textBuffer, hasText, currentWord and displayedLetters are as     *)
(* they were just before the rejection was handled.                        *)
(***************************************************************************)
C9_RejectedCopyKeepsText ==
  [][(EventName' = "copyRejected")
       => /\ EventArg' = "console.error"
          /\ UNCHANGED <<textBuffer, hasText, currentWord, displayedLetters>>]_vars

\* the rejection has been handled and the text is still buffered
C9_Witness ==
  /\ EventName = "copyRejected" /\ EventArg = "console.error"
  /\ textBuffer # <<>>
  /\ hasText

(***************************************************************************)
(* C10: clearAllText leaves textBuffer empty, hasText false, currentWord   *)
(* empty and displayedLetters empty, and does not change nextId,           *)
(* isPanelVisible or fadeSpeedFactor.                                      *)
(***************************************************************************)
C10_ClearAllText ==
  [][(EventName' = "clearAllText")
       => /\ textBuffer' = <<>>
          /\ hasText' = FALSE
          /\ currentWord' = <<>>
          /\ displayedLetters' = <<>>
          /\ UNCHANGED <<nextId, isPanelVisible, fadeSpeedFactor>>]_vars

\* cleared after letters were shown, with the panel hidden and the slider moved
C10_Witness ==
  /\ EventName = "clearAllText"
  /\ textBuffer = <<>> /\ ~hasText /\ currentWord = <<>> /\ displayedLetters = <<>>
  /\ nextId > 1
  /\ ~isPanelVisible
  /\ fadeSpeedFactor # DefaultFadeSpeedFactor

(***************************************************************************)
(* C11: the word count shown is the number of buffer entries that hold     *)
(* some character other than . , ! ? ; : and whitespace, plus one if       *)
(* currentWord is non-blank.                                               *)
(***************************************************************************)
CountsAsWord(word) ==
  \E i \in 1..Len(word) : word[i] \notin PunctuationChars \cup WhiteSpace

IsNonBlank(word) == \E i \in 1..Len(word) : word[i] \notin WhiteSpace

C11_WordCountShown ==
  EventName = "wordCount"
    => EventArg = Cardinality({i \in 1..Len(textBuffer) : CountsAsWord(textBuffer[i])})
                    + (IF IsNonBlank(currentWord) THEN 1 ELSE 0)

\* a word, a punctuation-only entry and a word being typed: 2 is shown
C11_Witness ==
  /\ EventName = "wordCount"
  /\ EventArg = 2
  /\ textBuffer = << <<"h", ".">>, <<".", ".">> >>
  /\ currentWord = <<"h">>


(***************************************************************************)
(* C12: a letter's opacity starts at 1, never increases and is never       *)
(* negative: in every state it lies between 0 and 1, a letter new to the   *)
(* display has opacity 1, no step raises the opacity of a letter that      *)
(* stays, and a 20 ms callback whose decrement would bring the opacity to  *)
(* 0 or below returns exactly 0 (otherwise it returns the opacity less the *)
(* decrement, which becomes the letter's opacity).                         *)
(***************************************************************************)
C12_InRange ==
  \A id \in DOMAIN opacity : 0 <= opacity[id] /\ opacity[id] <= FullOpacity

C12_Step ==
  /\ \A id \in DOMAIN opacity' :
       IF id \in DOMAIN opacity THEN opacity'[id] <= opacity[id]
       ELSE opacity'[id] = FullOpacity
  /\ lastEvent'[1] = "tick" =>
       LET id == lastEvent'[2][1]
           returned == lastEvent'[2][2]
           decrement == FadeSpeed(LetterById(id).isFadingOut, fadeSpeedFactor)
       IN IF opacity[id] - decrement <= 0
          THEN returned = 0
          ELSE /\ returned = opacity[id] - decrement
               /\ opacity'[id] = returned

C12_OpacityRange == []C12_InRange /\ [][C12_Step]_vars

\* a callback at the fastest slider setting has just returned 0 for a letter
\* while another letter is still on display
C12_Witness ==
  /\ EventName = "tick"
  /\ EventArg[2] = 0
  /\ fadeSpeedFactor = MaxFadeSpeedFactor
  /\ EventArg[1] \notin DOMAIN opacity
  /\ DOMAIN opacity # {}


(***************************************************************************)
(* C13: teardown clears timers: a letter that is no longer in              *)
(* displayedLetters, whether its fade completed or clearAllText removed    *)
(* it, has no running 20 ms timer and no opacity left to change, and every *)
(* letter on display has its timer running.                                *)
(***************************************************************************)
C13_TeardownClearsTimers ==
  /\ fadeTimers = LetterIds(displayedLetters)
  /\ DOMAIN opacity = LetterIds(displayedLetters)

\* a fade has just completed: the letter and its timer are gone while another
\* letter's timer is still running
C13_Witness ==
  /\ EventName = "tick"
  /\ EventArg[2] = 0
  /\ EventArg[1] \notin fadeTimers
  /\ EventArg[1] \notin LetterIds(displayedLetters)
  /\ fadeTimers # {}


(***************************************************************************)
(* C14: whenever a new word is displayed, every letter already on display  *)
(* stays on display and is marked isFadingOut, so that the letters not     *)
(* fading are exactly those of the new word; no step turns a letter's      *)
(* isFadingOut from true to false, and no other step adds a non-fading     *)
(* letter.  Hence in every state the non-fading letters are those of the   *)
(* most recently displayed word: each of them is younger than every fading *)
(* letter.                                                                 *)
(***************************************************************************)
NonFadingIds(letters) ==
  {letters[i].id : i \in {k \in 1..Len(letters) : ~letters[k].isFadingOut}}

FadingIds(letters) ==
  {letters[i].id : i \in {k \in 1..Len(letters) : letters[k].isFadingOut}}

C14_NonFadingAreNewest ==
  \A fresh \in NonFadingIds(displayedLetters) :
    \A old \in FadingIds(displayedLetters) : old < fresh

C14_Step ==
  LET shown == LetterIds(displayedLetters') \ LetterIds(displayedLetters)
  IN /\ shown # {} =>
          /\ LetterIds(displayedLetters) \subseteq FadingIds(displayedLetters')
          /\ NonFadingIds(displayedLetters') = shown
     /\ shown = {} =>
          NonFadingIds(displayedLetters') \subseteq NonFadingIds(displayedLetters)
     /\ FadingIds(displayedLetters) \cap LetterIds(displayedLetters')
          \subseteq FadingIds(displayedLetters')

C14_OldLettersFade == []C14_NonFadingAreNewest /\ [][C14_Step]_vars

\* Enter has just displayed a second word next to the first, which now fades
C14_Witness ==
  /\ EventName = "keydown" /\ EventArg = "Enter"
  /\ Len(displayedLetters) = 2
  /\ displayedLetters[1].isFadingOut
  /\ ~displayedLetters[2].isFadingOut


(***************************************************************************)
(* C15: with its interval calling back again and again, every letter added *)
(* to displayedLetters is eventually removed from it, marked fading out or *)
(* not, at the slowest, the default and the fastest setting of the slider, *)
(* and at every setting of the slider's range a callback lowers the        *)
(* opacity by a positive amount; the callback that returns opacity 0       *)
(* removes exactly its own letter and leaves the other letters and their   *)
(* order as they were, and no other callback removes a letter.             *)
(***************************************************************************)
WithoutIndex(letters, k) ==
  SubSeq(letters, 1, k - 1) \o SubSeq(letters, k + 1, Len(letters))

C15_Removal ==
  lastEvent'[1] = "tick" =>
    IF lastEvent'[2][2] = 0
    THEN \E k \in 1..Len(displayedLetters) :
           /\ displayedLetters[k].id = lastEvent'[2][1]
           /\ displayedLetters' = WithoutIndex(displayedLetters, k)
    ELSE displayedLetters' = displayedLetters

C15_DecrementPositive ==
  \A factor \in MinFadeSpeedFactor..MaxFadeSpeedFactor :
    \A isFadingOut \in BOOLEAN : FadeSpeed(isFadingOut, factor) > 0

C15_EveryLetterFades ==
  /\ []C15_DecrementPositive
  /\ \A id \in 1..MaxFadeId :
       (id \in LetterIds(displayedLetters)) ~> (id \notin LetterIds(displayedLetters))
  /\ [][C15_Removal]_vars

\* at the slowest setting the newest letter, which no later word has marked
\* fading out, has just been removed ahead of an older letter that stays
C15_Witness ==
  /\ EventName = "tick"
  /\ EventArg[2] = 0
  /\ EventArg[1] = nextId - 1
  /\ fadeSpeedFactor = MinFadeSpeedFactor
  /\ Len(displayedLetters) = 1
  /\ displayedLetters[1].id < EventArg[1]


(***************************************************************************)
(* C16: in every state hasText is true exactly when textBuffer is          *)
(* non-empty, so the Download and Copy buttons, rendered when hasText is   *)
(* true, are shown exactly when there is buffered text to export.          *)
(***************************************************************************)
\* {hasText && (<> download-button, copy-button </>)}
ExportButtonsShown == hasText

C16_HasTextIffBuffered ==
  /\ hasText <=> textBuffer # <<>>
  /\ ExportButtonsShown <=> GetTextContent(textBuffer) # <<>>

\* a clipboard write has succeeded and taken the flag back to false with the
\* buffer, while the letters of the copied text are still on display
C16_Witness ==
  /\ EventName = "copyFulfilled"
  /\ textBuffer = <<>>
  /\ ~ExportButtonsShown
  /\ displayedLetters # <<>>


(***************************************************************************)
(* C17: handleKeyDown changes no state at all for Space, Enter or a        *)
(* punctuation key when the current word is empty, and for any key that is *)
(* not a letter, Backspace, Space, Enter or a punctuation mark; a letter   *)
(* or Backspace key changes nothing but currentWord.                       *)
(***************************************************************************)
HandledKeys == LetterChars \cup {"Backspace"} \cup WordKeys \cup PunctuationChars

C17_Step ==
  EventName' = "keydown" =>
    LET key == EventArg' IN
    /\ (key \in WordKeys \cup PunctuationChars /\ currentWord = <<>>)
         => UNCHANGED <<appVars, letterVars, envVars>>
    /\ key \notin HandledKeys
         => UNCHANGED <<appVars, letterVars, envVars>>
    /\ key \in LetterChars \cup {"Backspace"}
         => UNCHANGED <<displayedLetters, textBuffer, hasText, nextId,
                        isPanelVisible, fadeSpeedFactor, letterVars, envVars>>

C17_KeyFrame == [][C17_Step]_vars

\* a digit has just been pressed in the middle of a word, with an earlier word
\* on display and in the buffer
C17_Witness ==
  /\ EventName = "keydown" /\ EventArg = "1"
  /\ currentWord # <<>>
  /\ displayedLetters # <<>>
  /\ textBuffer # <<>>


(***************************************************************************)
(* C18: each word the user completes is appended to textBuffer exactly     *)
(* once, whatever the order of the keys and the 200 ms timers: a step that *)
(* appends to textBuffer appends one entry and closes the word being       *)
(* typed, so an append never finds the current word already closed by an   *)
(* earlier append.                                                         *)
(***************************************************************************)
C18_Step ==
  Len(textBuffer') > Len(textBuffer) =>
    /\ Len(textBuffer') = Len(textBuffer) + 1
    /\ Trim(currentWord) # <<>>
    /\ currentWord' = <<>>

C18_AppendedOnce == [][C18_Step]_vars

====
